---- MODULE Spec2Model ----
(***************************************************************************)
(* govanityurls: path resolution and mount decision.                       *)
(*                                                                         *)
(* The repository holds three variants of the handler:                     *)
(*   - package handler (src/unnamed/part_003): New, ServeHTTP, find with   *)
(*     the fast path and the slow path, global cache_max_age;              *)
(*   - the redirect variant (src/unnamed/part_001): newHandler,            *)
(*     Handler.ServeHTTP with redir/redir_paths and per-path cache age;    *)
(*   - the path-rule variant (src/handler.go): parsePaths, parsePathRules, *)
(*     pathConfigRuleSet.find, the static find without the slow path.      *)
(* Each variant has its own specification (Spec, SpecRedir, SpecRules)     *)
(* over the same variables.                                                *)
(*                                                                         *)
(* A Go string is a sequence of one-character strings; a URL is a sequence *)
(* of tokens in which "/", "{", "}" and " " are tokens of their own, so    *)
(* that prefix, suffix, index and replace work as on the bytes.            *)
(* A Go pointer is a sequence of length 0 (nil) or 1.                      *)
(***************************************************************************)
EXTENDS Integers, Sequences, FiniteSets, TLC

VARIABLES config, h, err, pc, req, resp

vars == <<config, h, err, pc, req, resp>>

----------------------------------------------------------------------------
(* Bounds of the model.                                                    *)

MaxKeyLen == 3

MaxMounts == 2

MaxReqLen == 4

\* the number of requests that are handled at the same time
MaxInFlight == 2

----------------------------------------------------------------------------
(* Go strings.                                                             *)

\* byte values of the characters used (string comparison is bytewise)
Ord ==
  [c \in {" ", "-", "/", "a", "b", "u", "v", "{", "}"} |->
     CASE c = " " -> 32
       [] c = "-" -> 45
       [] c = "/" -> 47
       [] c = "a" -> 97
       [] c = "b" -> 98
       [] c = "u" -> 117
       [] c = "v" -> 118
       [] c = "{" -> 123
       [] c = "}" -> 125]

\* s < t on Go strings
RECURSIVE StrLess(_, _)
StrLess(s, t) ==
  IF t = <<>> THEN FALSE
  ELSE IF s = <<>> THEN TRUE
  ELSE IF Head(s) = Head(t) THEN StrLess(Tail(s), Tail(t))
  ELSE Ord[Head(s)] < Ord[Head(t)]

\* s >= t on Go strings
StrGeq(s, t) == ~StrLess(s, t)

\* strings.HasPrefix
HasPrefix(s, prefix) ==
  /\ Len(s) >= Len(prefix)
  /\ SubSeq(s, 1, Len(prefix)) = prefix

\* strings.HasSuffix
HasSuffix(s, suffix) ==
  /\ Len(s) >= Len(suffix)
  /\ SubSeq(s, Len(s) - Len(suffix) + 1, Len(s)) = suffix

\* strings.TrimPrefix
TrimPrefix(s, prefix) ==
  IF HasPrefix(s, prefix) THEN SubSeq(s, Len(prefix) + 1, Len(s)) ELSE s

\* strings.TrimSuffix
TrimSuffix(s, suffix) ==
  IF HasSuffix(s, suffix) THEN SubSeq(s, 1, Len(s) - Len(suffix)) ELSE s

\* strings.Contains
Contains(s, substr) ==
  \E i \in 0..(Len(s) - Len(substr)) : SubSeq(s, i + 1, i + Len(substr)) = substr

\* the Go slice expression s[i:]
SliceFrom(s, i) == SubSeq(s, i + 1, Len(s))

\* sort.Search(n, f): binary search for the smallest index in [0, n) at
\* which f holds, n if there is none; indices are Go indices (from 0)
RECURSIVE SearchLoop(_, _, _)
SearchLoop(f, i, j) ==
  IF i < j
  THEN LET m == (i + j) \div 2
       IN  IF ~f[m] THEN SearchLoop(f, m + 1, j) ELSE SearchLoop(f, i, m)
  ELSE i

Search(n, f) == SearchLoop(f, 0, n)

\* all strings over an alphabet of length at most n
Strings(alphabet, n) == UNION {[1..k -> alphabet] : k \in 0..n}

\* the orders in which a Go map range can visit a set of keys
Orders(S) ==
  {o \in [1..Cardinality(S) -> S] : \A i, j \in DOMAIN o : i # j => o[i] # o[j]}

\* the results sort.Sort can leave for a slice built in any order: the
\* sort is not stable, so entries with equal paths end in any order
SortedOrders(S, pathOf) ==
  {o \in Orders(S) :
     \A i \in 1..(Len(o) - 1) : ~StrLess(pathOf[o[i + 1]], pathOf[o[i]])}

----------------------------------------------------------------------------
(* URLs and texts, as token sequences.                                     *)

GitHubPrefix == <<"https:", "/", "/", "github.com", "/">>

BitbucketPrefix == <<"https:", "/", "/", "bitbucket.org">>

GitHubRepo == GitHubPrefix \o <<"rakyll", "/", "portmidi">>

BitbucketRepo == BitbucketPrefix \o <<"/", "zombiezen", "/", "gopdf">>

OtherRepo == <<"https:", "/", "/", "example.org", "/", "repo">>

PlusRepo == <<"https:", "/", "/", "example.org", "/", "c", "+", "+">>

CustomDisplay == GitHubRepo \o <<" ", "_", " ", "_">>

\* fmt.Sprintf("%v %v/tree/master{/dir} %v/blob/master{/dir}/{file}#L{line}", r, r, r)
GitHubDisplay(r) ==
  r \o <<" ">> \o r \o <<"/", "tree", "/", "master", "{", "/", "dir", "}">>
    \o <<" ">> \o r
    \o <<"/", "blob", "/", "master", "{", "/", "dir", "}", "/", "{", "file", "}",
         "#L", "{", "line", "}">>

\* fmt.Sprintf("%v %v/src/default{/dir} %v/src/default{/dir}/{file}#{file}-{line}", r, r, r)
BitbucketDisplay(r) ==
  r \o <<" ">> \o r \o <<"/", "src", "/", "default", "{", "/", "dir", "}">>
    \o <<" ">> \o r
    \o <<"/", "src", "/", "default", "{", "/", "dir", "}", "/", "{", "file", "}",
         "#", "{", "file", "}", "-", "{", "line", "}">>

\* fmt.Sprintf("public, max-age=%d", n)
CacheControlOf(n) == <<"public, max-age=", n>>

DefaultCacheAge == 86400

\* html/template in a quoted attribute value: the replacement of one character
EscapeChar(c) ==
  CASE c = "&" -> "&amp;"
    [] c = "+" -> "&#43;"
    [] c = "<" -> "&lt;"
    [] c = ">" -> "&gt;"
    [] c = "'" -> "&#39;"
    [] c = "\"" -> "&#34;"
    [] OTHER -> c

\* html/template in a quoted attribute value: the text it writes for s
HTMLEscape(s) == [i \in DOMAIN s |-> EscapeChar(s[i])]

\* the character an HTML parser reads for one character or character
\* reference of an attribute value
UnescapeChar(c) ==
  CASE c = "&amp;" -> "&"
    [] c = "&#43;" -> "+"
    [] c = "&lt;" -> "<"
    [] c = "&gt;" -> ">"
    [] c = "&#39;" -> "'"
    [] c = "&#34;" -> "\""
    [] OTHER -> c

\* the attribute value an HTML parser reads from the text s
HTMLUnescape(s) == [i \in DOMAIN s |-> UnescapeChar(s[i])]

KnownVCS == {"bzr", "git", "hg", "svn"}

----------------------------------------------------------------------------
(* Inputs.                                                                 *)

PathAlphabet == {"-", "/", "a"}

\* a path without an empty segment: no "//" in it
Clean(s) == \A i \in 1..(Len(s) - 1) : ~(s[i] = "/" /\ s[i + 1] = "/")

\* configured path keys: they start with "/" and have no empty segment, with
\* or without a trailing "/"
Keys == {k \in Strings(PathAlphabet, MaxKeyLen) : k # <<>> /\ k[1] = "/" /\ Clean(k)}

\* the subsets of S with at most n elements
RECURSIVE SetsUpTo(_, _)
SetsUpTo(S, n) ==
  IF n = 0 THEN {{}}
  ELSE LET P == SetsUpTo(S, n - 1) IN P \cup {T \cup {k} : T \in P, k \in S}

KeySets == SetsUpTo(Keys, MaxMounts)

\* request paths: r.URL.Path as http.ServeMux passes it on (a path with an
\* empty segment is redirected before it reaches the handler); a middleware
\* such as http.StripPrefix can leave it without its leading "/", and then
\* it is one character shorter
ReqPaths ==
  {p \in Strings(PathAlphabet, MaxReqLen) :
     /\ Clean(p)
     /\ HasPrefix(p, <<"/">>) \/ Len(p) < MaxReqLen}

ReqHosts == {<<"a.test">>, <<"b.test">>}

\* every path arrives under the first Host header, the short ones under
\* both
Requests ==
  {r \in [Path : ReqPaths, Host : ReqHosts] :
     r.Host = <<"a.test">> \/ Len(r.Path) <= 2}

ConfigHost == <<"example.com">>

NoRequest == [Path |-> <<>>, Host |-> <<>>]

\* the response before any request was served, and the fields of a response
NoResponse ==
  [status |-> 0, page |-> "none", location |-> <<>>, cacheControl |-> <<>>,
   mount |-> <<>>, path |-> <<>>, subpath |-> <<>>, import |-> <<>>,
   repo |-> <<>>, display |-> <<>>, vcs |-> "",
   goImport |-> <<>>, goSource |-> <<>>, handlers |-> <<>>]

\* http.NotFound
NotFound == [NoResponse EXCEPT !.status = 404, !.page = "notfound"]

----------------------------------------------------------------------------
(* package handler (src/unnamed/part_003).                                 *)

\* ConfigPath values of the model
GitHubEntry == [Repo |-> GitHubRepo, Display |-> <<>>, VCS |-> ""]

ConfigPaths ==
  { GitHubEntry,
    [Repo |-> GitHubRepo, Display |-> CustomDisplay, VCS |-> ""],
    [Repo |-> BitbucketRepo, Display |-> <<>>, VCS |-> "hg"],
    [Repo |-> BitbucketRepo, Display |-> <<>>, VCS |-> ""],
    [Repo |-> OtherRepo, Display |-> <<>>, VCS |-> "xyzzy"],
    [Repo |-> GitHubRepo, Display |-> <<>>, VCS |-> "svn"],
    [Repo |-> PlusRepo, Display |-> <<>>, VCS |-> "git"] }

CacheAges == {<<>>, <<-1>>, <<0>>, <<60>>}

\* configurations that vary the set of paths
KeyConfigs ==
  {[Host |-> ConfigHost, CacheAge |-> <<>>, Paths |-> [k \in S |-> GitHubEntry]] :
     S \in KeySets}

\* the key sets of the configurations that vary the entries: one path, two
\* paths, and two keys for the same path
EntryKeySets ==
  { {<<"/", "a">>}, {<<"/", "a">>, <<"/", "-">>}, {<<"/", "a">>, <<"/", "a", "/">>} }

\* configurations that vary the host, the cache age and the entries
EntryConfigs ==
  [Host : {<<>>, ConfigHost}, CacheAge : CacheAges,
   Paths : UNION {[S -> ConfigPaths] : S \in EntryKeySets}]

\* keys that end with more than one "/"
SlashKeys == { <<"/", "/">>, <<"/", "a", "/", "/">> }

\* configurations with such a key, alone and next to another path
SlashConfigs ==
  {[Host |-> ConfigHost, CacheAge |-> <<>>, Paths |-> [k \in S |-> GitHubEntry]] :
     S \in {{k} : k \in SlashKeys} \cup {{k, <<"/", "-">>} : k \in SlashKeys}}

Configs == KeyConfigs \cup EntryConfigs \cup SlashConfigs

\* the Go index expression pset[i]
At(pset, i) == pset[i + 1]

\* NewCacheControl without the check of the sign
NewCacheControl_Unchecked(cfg) ==
  [err |-> "",
   cacheControl |-> CacheControlOf(IF cfg.CacheAge # <<>> THEN cfg.CacheAge[1]
                                   ELSE DefaultCacheAge)]

\* New, the cache age: "public, max-age=N", or the error
NewCacheControl(cfg) ==
  LET cacheAge == IF cfg.CacheAge # <<>> THEN cfg.CacheAge[1] ELSE DefaultCacheAge
  IN  IF cfg.CacheAge # <<>> /\ cacheAge < 0
      THEN [err |-> "cache_max_age is negative", cacheControl |-> <<>>]
      ELSE [err |-> "", cacheControl |-> CacheControlOf(cacheAge)]

\* NewPathConfig inferring the display only when the vcs is inferred too
NewPathConfig_DisplayWithVCS(path, e) ==
  LET display ==
        IF e.Display # <<>> \/ e.VCS # "" THEN e.Display
        ELSE IF HasPrefix(e.Repo, GitHubPrefix) THEN GitHubDisplay(e.Repo)
        ELSE IF HasPrefix(e.Repo, BitbucketPrefix) THEN BitbucketDisplay(e.Repo)
        ELSE e.Display
      pcfg == [path |-> TrimSuffix(path, <<"/">>), repo |-> e.Repo,
               display |-> display, vcs |-> e.VCS]
  IN  IF e.VCS # ""
      THEN IF e.VCS \notin KnownVCS
           THEN [err |-> "unknown VCS", pc |-> pcfg]
           ELSE [err |-> "", pc |-> pcfg]
      ELSE IF HasPrefix(e.Repo, GitHubPrefix)
      THEN [err |-> "", pc |-> [pcfg EXCEPT !.vcs = "git"]]
      ELSE [err |-> "cannot infer VCS", pc |-> pcfg]

\* New, the body of the loop over config.Paths: the pathConfig of one entry,
\* or the error
NewPathConfig(path, e) ==
  LET display ==
        IF e.Display # <<>> THEN e.Display
        ELSE IF HasPrefix(e.Repo, GitHubPrefix) THEN GitHubDisplay(e.Repo)
        ELSE IF HasPrefix(e.Repo, BitbucketPrefix) THEN BitbucketDisplay(e.Repo)
        ELSE e.Display
      pcfg == [path |-> TrimSuffix(path, <<"/">>), repo |-> e.Repo,
               display |-> display, vcs |-> e.VCS]
  IN  IF e.VCS # ""
      THEN IF e.VCS \notin KnownVCS
           THEN [err |-> "unknown VCS", pc |-> pcfg]
           ELSE [err |-> "", pc |-> pcfg]
      ELSE IF HasPrefix(e.Repo, GitHubPrefix)
      THEN [err |-> "", pc |-> [pcfg EXCEPT !.vcs = "git"]]
      ELSE [err |-> "cannot infer VCS", pc |-> pcfg]

\* New: the results it can return for a configuration (the range over the
\* map visits the entries in any order, and returns at the first bad one)
New(cfg) ==
  LET cc   == NewCacheControl(cfg)
      keys == DOMAIN cfg.Paths
      pcOf(k) == NewPathConfig(k, cfg.Paths[k]).pc
      bad  == {k \in keys : NewPathConfig(k, cfg.Paths[k]).err # ""}
  IN  IF cc.err # "" THEN {[h |-> <<>>, err |-> cc.err]}
      ELSE IF bad # {}
      THEN {[h |-> <<>>, err |-> NewPathConfig(k, cfg.Paths[k]).err] : k \in bad}
      ELSE {[h |-> <<[hostName |-> cfg.Host, cacheControl |-> cc.cacheControl,
                      paths |-> [i \in DOMAIN o |-> pcOf(o[i])]]>>,
             err |-> ""] :
              o \in SortedOrders(keys, [k \in keys |-> pcOf(k).path])}

\* find, the slow path: the loop over pset[0..max-1]
RECURSIVE findSlow(_, _, _, _, _, _, _)
findSlow(pset, path, i, max, lenShortestSubpath, bestMatchConfig, subpath) ==
  IF i < max
  THEN LET ps == At(pset, i)
           sSubpath == TrimPrefix(path, ps.path)
       IN  IF Len(ps.path) >= Len(path)
           THEN findSlow(pset, path, i + 1, max, lenShortestSubpath,
                         bestMatchConfig, subpath)
           ELSE IF Len(sSubpath) < lenShortestSubpath
           THEN findSlow(pset, path, i + 1, max, Len(sSubpath), <<i>>, sSubpath)
           ELSE findSlow(pset, path, i + 1, max, lenShortestSubpath,
                         bestMatchConfig, subpath)
  ELSE [pc |-> bestMatchConfig, subpath |-> subpath]

\* pathConfigSet.find: pc is the pointer to the entry (its Go index), nil
\* when there is no match
find(pset, path) ==
  LET n == Len(pset)
      i == Search(n, [k \in 0..(n - 1) |-> StrGeq(At(pset, k).path, path)])
  IN  IF i < n /\ At(pset, i).path = path
      THEN [pc |-> <<i>>, subpath |-> <<>>]
      ELSE IF i > 0 /\ HasPrefix(path, At(pset, i - 1).path \o <<"/">>)
      THEN [pc |-> <<i - 1>>,
            subpath |-> SliceFrom(path, Len(At(pset, i - 1).path) + 1)]
      ELSE findSlow(pset, path, 0, i, Len(path), <<>>, <<>>)

\* handler.host preferring the Host header of the request
host_HeaderFirst(hh, r) == IF r.Host # <<>> THEN r.Host ELSE hh.hostName

\* handler.host
host(hh, r) == IF hh.hostName = <<>> THEN r.Host ELSE hh.hostName

\* handler.serveIndex
serveIndex(hh, r) ==
  [NoResponse EXCEPT
     !.status = 200, !.page = "index",
     !.handlers = [i \in DOMAIN hh.paths |-> host(hh, r) \o hh.paths[i].path]]

\* the path ServeHTTP resolves: r.URL.Path with a leading "/"
Current(r) == IF ~HasPrefix(r.Path, <<"/">>) THEN <<"/">> \o r.Path ELSE r.Path

\* handler.ServeHTTP: the response to request r
ServeHTTPResponse(hh, r) ==
  LET current == Current(r)
      f       == find(hh.paths, current)
  IN  IF f.pc = <<>> /\ current = <<"/">> THEN serveIndex(hh, r)
      ELSE IF f.pc = <<>> THEN NotFound
      ELSE LET m   == At(hh.paths, f.pc[1])
               imp == host(hh, r) \o m.path
           IN  [NoResponse EXCEPT
                  !.status = 200, !.page = "vanity",
                  !.cacheControl = hh.cacheControl,
                  !.mount = f.pc, !.path = m.path, !.subpath = f.subpath,
                  !.import = imp, !.repo = m.repo, !.display = m.display,
                  !.vcs = m.vcs,
                  !.goImport = HTMLEscape(imp) \o <<" ", m.vcs, " ">>
                                 \o HTMLEscape(m.repo),
                  !.goSource = HTMLEscape(imp) \o <<" ">> \o HTMLEscape(m.display)]

Init ==
  /\ config \in Configs
  /\ h = <<>>
  /\ err = ""
  /\ pc = "start"
  /\ req = NoRequest
  /\ resp = NoResponse

\* the handler is built from the configuration, once
Load ==
  /\ pc = "start"
  /\ \E r \in New(config) :
       /\ h' = r.h
       /\ err' = r.err
       /\ pc' = IF r.err = "" THEN "serving" ELSE "failed"
  /\ UNCHANGED <<config, req, resp>>

\* one request is served: the response is computed from the handler and the
\* request alone
ServeHTTP ==
  /\ pc = "serving"
  /\ \E r \in Requests :
       /\ req' = r
       /\ resp' = ServeHTTPResponse(h[1], r)
  /\ pc' = "responded"
  /\ UNCHANGED <<config, h, err>>

\* the response is written and the values of the request are dropped; the
\* handler serves the next request
Finish ==
  /\ pc = "responded"
  /\ req' = NoRequest
  /\ resp' = NoResponse
  /\ pc' = "serving"
  /\ UNCHANGED <<config, h, err>>

Next == Load \/ ServeHTTP \/ Finish

Spec == Init /\ [][Next]_vars

----------------------------------------------------------------------------
(* The redirect variant (src/unnamed/part_001).                            *)

RedirTarget == <<"https:", "/", "/", "dl.example.org", "/", "get">>

\* redir_paths values of the model: none, one marker, two markers, and the
\* empty marker
MarkerLists ==
  { <<>>, << <<"-">> >>, << <<"a", "a">>, <<"a">> >>, << <<>> >> }

\* cache_max_age is a *uint64: absent, or a number that is not negative
RedirCacheAges == {<<>>, <<0>>, <<60>>}

\* PathConfig values as yaml.Unmarshal leaves them
PathConfigEntries ==
  [Repo : {<<>>, GitHubRepo}, Redir : {<<>>, RedirTarget}, VCS : {"", "git"},
   Display : {<<>>}, CacheAge : RedirCacheAges, RedirPaths : MarkerLists]

BothEntry ==
  [Repo |-> GitHubRepo, Redir |-> RedirTarget, VCS |-> "", Display |-> <<>>,
   CacheAge |-> <<0>>, RedirPaths |-> << <<"-">> >>]

RedirectOnlyEntry ==
  [Repo |-> <<>>, Redir |-> RedirTarget, VCS |-> "", Display |-> <<>>,
   CacheAge |-> <<>>, RedirPaths |-> << <<"-">> >>]

\* configurations that vary the entry of one path and the global settings
RedirEntryConfigs ==
  [Host : {ConfigHost}, CacheAge : RedirCacheAges,
   RedirPaths : {<<>>, << <<"a">> >>},
   Paths : [{<<"/", "a">>} -> PathConfigEntries]]

\* configurations that vary the paths, at most two of them
RedirKeyConfigs ==
  [Host : {<<>>, ConfigHost}, CacheAge : {<<>>}, RedirPaths : {<<>>},
   Paths : UNION {[S -> {BothEntry, RedirectOnlyEntry}] :
                    S \in SetsUpTo(Keys, 2)}]

\* entries that vary the repo, the redirect target, the vcs and the display
VCSEntries ==
  [Repo : {<<>>, GitHubRepo, BitbucketRepo, OtherRepo}, Redir : {<<>>, RedirTarget},
   VCS : {"", "git", "hg", "xyzzy"}, Display : {<<>>, CustomDisplay},
   CacheAge : {<<>>}, RedirPaths : {<<>>}]

\* configurations that vary the validated fields of one entry, alone and
\* next to a second entry that is accepted
RedirVCSConfigs ==
  [Host : {ConfigHost}, CacheAge : {<<>>}, RedirPaths : {<<>>},
   Paths : {[k \in {<<"/", "a">>} |-> e] : e \in VCSEntries}
             \cup {[k \in {<<"/", "a">>, <<"/", "-">>} |->
                      IF k = <<"/", "a">> THEN e ELSE BothEntry] : e \in VCSEntries}]

RedirConfigs == RedirEntryConfigs \cup RedirKeyConfigs \cup RedirVCSConfigs

\* newHandler, the global cache control
newHandlerCacheControl(cfg) ==
  IF cfg.CacheAge # <<>> THEN CacheControlOf(cfg.CacheAge[1])
  ELSE CacheControlOf(DefaultCacheAge)

\* entryCacheControl taking a cache age of 0 for an absent one
entryCacheControl_ZeroAbsent(cfg, e) ==
  IF e.CacheAge # <<>> /\ e.CacheAge[1] # 0 THEN CacheControlOf(e.CacheAge[1])
  ELSE newHandlerCacheControl(cfg)

\* newHandler, the cache control of one entry
entryCacheControl(cfg, e) ==
  IF e.CacheAge # <<>> THEN CacheControlOf(e.CacheAge[1])
  ELSE newHandlerCacheControl(cfg)

\* newHandlerPathConfig taking any vcs that is supplied
newHandlerPathConfig_AnyVCS(cfg, path, e) ==
  LET display ==
        IF e.Display # <<>> THEN e.Display
        ELSE IF HasPrefix(e.Repo, GitHubPrefix) THEN GitHubDisplay(e.Repo)
        ELSE IF HasPrefix(e.Repo, BitbucketPrefix) THEN BitbucketDisplay(e.Repo)
        ELSE e.Display
      pcfg == [path |-> TrimSuffix(path, <<"/">>),
               CacheAge |-> e.CacheAge,
               RedirPaths |-> IF Len(e.RedirPaths) < 1 THEN cfg.RedirPaths
                              ELSE e.RedirPaths,
               Repo |-> e.Repo, Redir |-> e.Redir, Display |-> display,
               VCS |-> e.VCS, cacheControl |-> entryCacheControl(cfg, e)]
  IN  IF e.VCS # ""
      THEN [err |-> "", pc |-> pcfg]
      ELSE IF HasPrefix(e.Repo, GitHubPrefix)
      THEN [err |-> "", pc |-> [pcfg EXCEPT !.VCS = "git"]]
      ELSE IF e.Repo = <<>> /\ e.Redir # <<>>
      THEN [err |-> "", pc |-> pcfg]
      ELSE [err |-> "cannot infer VCS", pc |-> pcfg]

\* newHandler, the body of the loop over h.Config.Paths: the entry as the
\* loop leaves it (field path is PathConfig.Path), or the error
newHandlerPathConfig(cfg, path, e) ==
  LET display ==
        IF e.Display # <<>> THEN e.Display
        ELSE IF HasPrefix(e.Repo, GitHubPrefix) THEN GitHubDisplay(e.Repo)
        ELSE IF HasPrefix(e.Repo, BitbucketPrefix) THEN BitbucketDisplay(e.Repo)
        ELSE e.Display
      pcfg == [path |-> TrimSuffix(path, <<"/">>),
               CacheAge |-> e.CacheAge,
               RedirPaths |-> IF Len(e.RedirPaths) < 1 THEN cfg.RedirPaths
                              ELSE e.RedirPaths,
               Repo |-> e.Repo, Redir |-> e.Redir, Display |-> display,
               VCS |-> e.VCS, cacheControl |-> entryCacheControl(cfg, e)]
  IN  IF e.VCS # ""
      THEN IF e.VCS \notin KnownVCS
           THEN [err |-> "unknown VCS", pc |-> pcfg]
           ELSE [err |-> "", pc |-> pcfg]
      ELSE IF HasPrefix(e.Repo, GitHubPrefix)
      THEN [err |-> "", pc |-> [pcfg EXCEPT !.VCS = "git"]]
      ELSE IF e.Repo = <<>> /\ e.Redir # <<>>
      THEN [err |-> "", pc |-> pcfg]
      ELSE [err |-> "cannot infer VCS", pc |-> pcfg]

\* newHandler: the results it can return for a configuration; the handler
\* embeds the configuration, whose entries the loop has filled in, and the
\* sorted list of the same entries
newHandler(cfg) ==
  LET keys == DOMAIN cfg.Paths
      pcOf(k) == newHandlerPathConfig(cfg, k, cfg.Paths[k]).pc
      bad  == {k \in keys : newHandlerPathConfig(cfg, k, cfg.Paths[k]).err # ""}
  IN  IF bad # {}
      THEN {[h |-> <<>>, err |-> newHandlerPathConfig(cfg, k, cfg.Paths[k]).err] :
              k \in bad}
      ELSE {[h |-> <<[Host |-> cfg.Host, CacheAge |-> cfg.CacheAge,
                      RedirPaths |-> cfg.RedirPaths,
                      Paths |-> [k \in keys |-> pcOf(k)],
                      paths |-> [i \in DOMAIN o |-> pcOf(o[i])]]>>,
             err |-> ""] :
              o \in SortedOrders(keys, [k \in keys |-> pcOf(k).path])}

\* PathConfigs.find: the same search as pathConfigSet.find of package handler
PathConfigs_find(pset, path) == find(pset, path)

\* Handler.Hostname
Hostname(hh, r) == IF hh.Host = <<>> THEN r.Host ELSE hh.Host

\* StringInSlices comparing the whole subpath with a marker
StringInSlices_Equal(str, slice) == \E i \in DOMAIN slice : str = slice[i]

\* StringInSlices with the arguments of strings.Contains exchanged
StringInSlices_Swapped(str, slice) == \E i \in DOMAIN slice : Contains(slice[i], str)

\* StringInSlices
StringInSlices(str, slice) == \E i \in DOMAIN slice : Contains(str, slice[i])

\* indexTmpl of templates.go on &h.Config: the paths with a repo, in the order
\* of the keys of the map
indexPage(hh) ==
  LET keys == {k \in DOMAIN hh.Paths : hh.Paths[k].Repo # <<>>}
      o    == CHOOSE q \in SortedOrders(keys, [k \in keys |-> k]) : TRUE
  IN  [NoResponse EXCEPT
         !.status = 200, !.page = "index",
         !.handlers = [i \in DOMAIN o |-> hh.Host \o hh.Paths[o[i]].path]]

\* Handler_ServeHTTP redirecting to the target followed by the subpath
Handler_ServeHTTP_ToSubpath(hh, r) ==
  LET current == r.Path
      f       == PathConfigs_find(hh.paths, current)
  IN  IF f.pc = <<>> /\ current = <<"/">> THEN indexPage(hh)
      ELSE IF f.pc = <<>> THEN NotFound
      ELSE LET m == At(hh.paths, f.pc[1])
               imp == Hostname(hh, r) \o m.path
           IN  IF m.Redir # <<>> /\ StringInSlices(f.subpath, m.RedirPaths)
               THEN [NoResponse EXCEPT
                       !.status = 302, !.page = "redirect",
                       !.location = m.Redir \o f.subpath,
                       !.mount = f.pc, !.path = m.path, !.subpath = f.subpath]
               ELSE IF m.Repo = <<>>
               THEN [NotFound EXCEPT
                       !.mount = f.pc, !.path = m.path, !.subpath = f.subpath]
               ELSE [NoResponse EXCEPT
                       !.status = 200, !.page = "vanity",
                       !.cacheControl = m.cacheControl,
                       !.mount = f.pc, !.path = m.path, !.subpath = f.subpath,
                       !.import = imp, !.repo = m.Repo, !.display = m.Display,
                       !.vcs = m.VCS,
                       !.goImport = imp \o <<" ", m.VCS, " ">> \o m.Repo,
                       !.goSource = imp \o <<" ">> \o m.Display]

\* Handler.ServeHTTP: the response to request r (vanityTmpl of templates.go is
\* a text/template: it writes the values as they are)
Handler_ServeHTTP(hh, r) ==
  LET current == r.Path
      f       == PathConfigs_find(hh.paths, current)
  IN  IF f.pc = <<>> /\ current = <<"/">> THEN indexPage(hh)
      ELSE IF f.pc = <<>> THEN NotFound
      ELSE LET m == At(hh.paths, f.pc[1])
               imp == Hostname(hh, r) \o m.path
           IN  IF m.Redir # <<>> /\ StringInSlices(f.subpath, m.RedirPaths)
               THEN [NoResponse EXCEPT
                       !.status = 302, !.page = "redirect",
                       !.location = m.Redir \o TrimPrefix(current, m.path),
                       !.mount = f.pc, !.path = m.path, !.subpath = f.subpath]
               ELSE IF m.Repo = <<>>
               THEN [NotFound EXCEPT
                       !.mount = f.pc, !.path = m.path, !.subpath = f.subpath]
               ELSE [NoResponse EXCEPT
                       !.status = 200, !.page = "vanity",
                       !.cacheControl = m.cacheControl,
                       !.mount = f.pc, !.path = m.path, !.subpath = f.subpath,
                       !.import = imp, !.repo = m.Repo, !.display = m.Display,
                       !.vcs = m.VCS,
                       !.goImport = imp \o <<" ", m.VCS, " ">> \o m.Repo,
                       !.goSource = imp \o <<" ">> \o m.Display]

InitRedir ==
  /\ config \in RedirConfigs
  /\ h = <<>>
  /\ err = ""
  /\ pc = "start"
  /\ req = NoRequest
  /\ resp = NoResponse

\* the handler is built from the configuration, once
LoadRedir ==
  /\ pc = "start"
  /\ \E r \in newHandler(config) :
       /\ h' = r.h
       /\ err' = r.err
       /\ pc' = IF r.err = "" THEN "serving" ELSE "failed"
  /\ UNCHANGED <<config, req, resp>>

\* one request is served
ServeHTTPRedir ==
  /\ pc = "serving"
  /\ \E r \in Requests :
       /\ req' = r
       /\ resp' = Handler_ServeHTTP(h[1], r)
  /\ pc' = "responded"
  /\ UNCHANGED <<config, h, err>>

NextRedir == LoadRedir \/ ServeHTTPRedir \/ Finish

SpecRedir == InitRedir /\ [][NextRedir]_vars

----------------------------------------------------------------------------
(* The path-rule variant (src/handler.go).                                 *)

\* strings.Index(s, c) for a one-character c: the Go index of its first
\* occurrence, -1 if there is none
Index(s, c) ==
  IF \E i \in DOMAIN s : s[i] = c
  THEN (CHOOSE i \in DOMAIN s : s[i] = c /\ \A j \in 1..(i - 1) : s[j] # c) - 1
  ELSE -1

\* strings.Replace(s, old, new, -1) for a non-empty old
RECURSIVE Replace(_, _, _)
Replace(s, old, new) ==
  IF Len(s) < Len(old) THEN s
  ELSE IF HasPrefix(s, old) THEN new \o Replace(SliceFrom(s, Len(old)), old, new)
  ELSE <<Head(s)>> \o Replace(Tail(s), old, new)

\* findStructure without the test of the text after the placeholder
findStructure_FirstOnly(match) ==
  LET failed(e) == [prefix |-> <<>>, placeholder |-> <<>>, suffix |-> <<>>, err |-> e]
      i == Index(match, "{")
      s == SliceFrom(match, i + 1)
      j == Index(s, "}")
      suffix == SliceFrom(s, j + 1)
  IN  IF i < 0 THEN failed("no placeholder found")
      ELSE IF j < 0 THEN failed("placeholder not terminated")
      ELSE IF j = 0 THEN failed("placeholder is empty")
      ELSE [prefix |-> SubSeq(match, 1, i),
            placeholder |-> <<"{">> \o SubSeq(s, 1, j) \o <<"}">>,
            suffix |-> suffix, err |-> ""]

\* findStructure
findStructure(match) ==
  LET failed(e) == [prefix |-> <<>>, placeholder |-> <<>>, suffix |-> <<>>, err |-> e]
      i == Index(match, "{")
      s == SliceFrom(match, i + 1)
      j == Index(s, "}")
      suffix == SliceFrom(s, j + 1)
  IN  IF i < 0 THEN failed("no placeholder found")
      ELSE IF j < 0 THEN failed("placeholder not terminated")
      ELSE IF j = 0 THEN failed("placeholder is empty")
      ELSE IF \E k \in DOMAIN suffix : suffix[k] \in {"{", "}"}
      THEN failed("multiple placeholders")
      ELSE [prefix |-> SubSeq(match, 1, i),
            placeholder |-> <<"{">> \o SubSeq(s, 1, j) \o <<"}">>,
            suffix |-> suffix, err |-> ""]

\* parsePathRule without the comparison of the two placeholders
parsePathRule_NoAgreement(rule, e) ==
  LET k  == findStructure(TrimSuffix(rule, <<"/">>))
      r  == findStructure(TrimSuffix(e.Repo, <<"/">>))
      prule == [placeholder |-> k.placeholder, repoSubst |-> e.Repo,
                display |-> e.Display, vcs |-> e.VCS]
      failed(x) == [err |-> x, prefix |-> k.prefix, rule |-> prule]
  IN  IF k.err # "" THEN failed(k.err)
      ELSE IF k.suffix # <<>> THEN failed("trailing garbage")
      ELSE IF r.err # "" THEN failed("repo")
      ELSE IF e.VCS # ""
      THEN IF e.VCS \notin KnownVCS THEN failed("unknown VCS")
           ELSE [err |-> "", prefix |-> k.prefix, rule |-> prule]
      ELSE IF HasPrefix(e.Repo, GitHubPrefix)
      THEN [err |-> "", prefix |-> k.prefix, rule |-> [prule EXCEPT !.vcs = "git"]]
      ELSE failed("cannot infer VCS")

\* parsePathRules, the checks of one rule before it is stored: the error, or
\* the prefix and the pathConfigRule
parsePathRule(rule, e) ==
  LET k  == findStructure(TrimSuffix(rule, <<"/">>))
      r  == findStructure(TrimSuffix(e.Repo, <<"/">>))
      prule == [placeholder |-> k.placeholder, repoSubst |-> e.Repo,
                display |-> e.Display, vcs |-> e.VCS]
      failed(x) == [err |-> x, prefix |-> k.prefix, rule |-> prule]
  IN  IF k.err # "" THEN failed(k.err)
      ELSE IF k.suffix # <<>> THEN failed("trailing garbage")
      ELSE IF r.err # "" THEN failed("repo")
      ELSE IF k.placeholder # r.placeholder THEN failed("placeholder mismatch")
      ELSE IF e.VCS # ""
      THEN IF e.VCS \notin KnownVCS THEN failed("unknown VCS")
           ELSE [err |-> "", prefix |-> k.prefix, rule |-> prule]
      ELSE IF HasPrefix(e.Repo, GitHubPrefix)
      THEN [err |-> "", prefix |-> k.prefix, rule |-> [prule EXCEPT !.vcs = "git"]]
      ELSE failed("cannot infer VCS")

\* parsePathRules, the first loop, visiting the rules in order o from the
\* i-th on; paths is the map built so far
RECURSIVE parsePathRulesLoop(_, _, _, _)
parsePathRulesLoop(pathRules, o, i, paths) ==
  IF i > Len(o) THEN [rules |-> paths, err |-> ""]
  ELSE LET p == parsePathRule(o[i], pathRules[o[i]])
       IN  IF p.err # "" THEN [rules |-> <<>>, err |-> p.err]
           ELSE IF p.prefix \in DOMAIN paths
           THEN [rules |-> <<>>, err |-> "duplicate prefix"]
           ELSE parsePathRulesLoop(pathRules, o, i + 1,
                                   [x \in DOMAIN paths \cup {p.prefix} |->
                                      IF x = p.prefix THEN p.rule ELSE paths[x]])

\* covered without the second loop
covered_Skipped(paths) == FALSE

\* covered comparing whole path segments only
covered_SeparatorOnly(paths) ==
  \E prefix, value \in DOMAIN paths :
    value # prefix /\ HasPrefix(value, prefix \o <<"/">>)

\* parsePathRules, the second loop: some prefix covers another one
covered(paths) ==
  \E prefix, value \in DOMAIN paths : value # prefix /\ HasPrefix(value, prefix)

\* parsePathRules: the results it can return, one for each order in which
\* the range visits the map; rules maps a literal prefix to its rule
parsePathRules(pathRules) ==
  { LET l == parsePathRulesLoop(pathRules, o, 1, <<>>)
    IN  IF l.err # "" THEN l
        ELSE IF covered(l.rules) THEN [rules |-> <<>>, err |-> "already covered"]
        ELSE l
    : o \in Orders(DOMAIN pathRules) }

\* parsePaths, the body of the loop: the pathConfig of one entry, or the error
parsePathConfig(path, e) ==
  LET display ==
        IF e.Display # <<>> THEN e.Display
        ELSE IF HasPrefix(e.Repo, GitHubPrefix) THEN GitHubDisplay(e.Repo)
        ELSE IF HasPrefix(e.Repo, BitbucketPrefix) THEN BitbucketDisplay(e.Repo)
        ELSE e.Display
      pcfg == [path |-> TrimSuffix(path, <<"/">>), repo |-> e.Repo,
               display |-> display, vcs |-> e.VCS]
  IN  IF e.VCS # ""
      THEN IF e.VCS \notin KnownVCS
           THEN [err |-> "unknown VCS", pc |-> pcfg]
           ELSE [err |-> "", pc |-> pcfg]
      ELSE IF HasPrefix(e.Repo, GitHubPrefix)
      THEN [err |-> "", pc |-> [pcfg EXCEPT !.vcs = "git"]]
      ELSE [err |-> "cannot infer VCS", pc |-> pcfg]

\* parsePaths: the results it can return
parsePaths(pathTable) ==
  LET keys == DOMAIN pathTable
      pcOf(k) == parsePathConfig(k, pathTable[k]).pc
      bad  == {k \in keys : parsePathConfig(k, pathTable[k]).err # ""}
  IN  IF bad # {}
      THEN {[paths |-> <<>>, err |-> parsePathConfig(k, pathTable[k]).err] : k \in bad}
      ELSE {[paths |-> [i \in DOMAIN o |-> pcOf(o[i])], err |-> ""] :
              o \in SortedOrders(keys, [k \in keys |-> pcOf(k).path])}

\* handler_newHandler returning the handler it has built so far next to the
\* error
handler_newHandler_KeepsHandler(cfg) ==
  UNION { IF p.err # ""
          THEN {[h |-> <<[host |-> cfg.Host, paths |-> <<>>, pathRules |-> <<>>]>>,
                 err |-> p.err]}
          ELSE { IF r.err # ""
                 THEN [h |-> <<[host |-> cfg.Host, paths |-> p.paths,
                                pathRules |-> <<>>]>>,
                       err |-> r.err]
                 ELSE [h |-> <<[host |-> cfg.Host, paths |-> p.paths,
                                pathRules |-> r.rules]>>,
                       err |-> ""]
                 : r \in parsePathRules(cfg.PathRules) }
          : p \in parsePaths(cfg.Paths) }

\* newHandler of handler.go: the paths, then the rules
handler_newHandler(cfg) ==
  UNION { IF p.err # "" THEN {[h |-> <<>>, err |-> p.err]}
          ELSE { IF r.err # "" THEN [h |-> <<>>, err |-> r.err]
                 ELSE [h |-> <<[host |-> cfg.Host, paths |-> p.paths,
                                pathRules |-> r.rules]>>,
                       err |-> ""]
                 : r \in parsePathRules(cfg.PathRules) }
          : p \in parsePaths(cfg.Paths) }

\* splitSubpath
splitSubpath(name) ==
  LET i == Index(name, "/")
  IN  IF i < 0 THEN <<name, <<>>>>
      ELSE <<SubSeq(name, 1, i), SliceFrom(name, i)>>

\* pathConfigRuleSet.find, the body of the loop for a prefix that matches:
\* the pathConfig it builds and the subpath
ruleMatch(prset, prefix, path) ==
  LET rule  == prset[prefix]
      split == splitSubpath(TrimPrefix(path, prefix))
      name  == split[1]
      subPath == split[2]
  IN  [pc |-> <<[path |-> TrimSuffix(path, subPath),
                 repo |-> Replace(rule.repoSubst, rule.placeholder, name),
                 display |-> Replace(rule.display, rule.placeholder, name),
                 vcs |-> rule.vcs]>>,
       subpath |-> subPath]

\* pathConfigRuleSet.find: the results it can return; the range visits the
\* map in any order and the first prefix that matches decides; pc is the
\* pointer to a new pathConfig, nil when no prefix matches
pathConfigRuleSet_find(prset, path) ==
  LET matching == {prefix \in DOMAIN prset : HasPrefix(path, prefix)}
  IN  IF matching = {} THEN {[pc |-> <<>>, subpath |-> <<>>]}
      ELSE {ruleMatch(prset, prefix, path) : prefix \in matching}

\* pathConfigSet.find of handler.go: the exact match and the predecessor, no
\* slow path
pathConfigSet_find(pset, path) ==
  LET n == Len(pset)
      i == Search(n, [k \in 0..(n - 1) |-> StrGeq(At(pset, k).path, path)])
  IN  IF i < n /\ At(pset, i).path = path
      THEN [pc |-> <<i>>, subpath |-> <<>>]
      ELSE IF i > 0 /\ HasPrefix(path, At(pset, i - 1).path \o <<"/">>)
      THEN [pc |-> <<i - 1>>,
            subpath |-> SliceFrom(path, Len(At(pset, i - 1).path) + 1)]
      ELSE [pc |-> <<>>, subpath |-> <<>>]

\* handler.Host, with defaultHost of the standalone build
handler_Host(hh, r) == IF hh.host = <<>> THEN r.Host ELSE hh.host

\* handler.serveIndex of handler.go
handler_serveIndex(hh, r) ==
  [NoResponse EXCEPT
     !.status = 200, !.page = "index",
     !.handlers = [i \in DOMAIN hh.paths |-> handler_Host(hh, r) \o hh.paths[i].path]]

\* the page vanityTmpl renders for a pathConfig and a subpath
vanityPage(hh, r, m, subpath) ==
  LET imp == handler_Host(hh, r) \o m.path
  IN  [NoResponse EXCEPT
         !.status = 200, !.page = "vanity",
         !.path = m.path, !.subpath = subpath,
         !.import = imp, !.repo = m.repo, !.display = m.display, !.vcs = m.vcs,
         !.goImport = HTMLEscape(imp) \o <<" ", m.vcs, " ">> \o HTMLEscape(m.repo),
         !.goSource = HTMLEscape(imp) \o <<" ">> \o HTMLEscape(m.display)]

\* handler_ServeHTTP answering every unmatched path with the index page
handler_ServeHTTP_IndexAlways(hh, r) ==
  LET current == r.Path
      f       == pathConfigSet_find(hh.paths, current)
  IN  IF f.pc # <<>>
      THEN {[vanityPage(hh, r, At(hh.paths, f.pc[1]), f.subpath) EXCEPT !.mount = f.pc]}
      ELSE { IF g.pc = <<>> THEN handler_serveIndex(hh, r)
             ELSE [vanityPage(hh, r, g.pc[1], g.subpath) EXCEPT !.mount = <<"rule">>]
             : g \in pathConfigRuleSet_find(hh.pathRules, current) }

\* handler_ServeHTTP asking the rules before the static index
handler_ServeHTTP_RulesFirst(hh, r) ==
  LET current == r.Path
      f       == pathConfigSet_find(hh.paths, current)
  IN  { IF g.pc # <<>>
        THEN [vanityPage(hh, r, g.pc[1], g.subpath) EXCEPT !.mount = <<"rule">>]
        ELSE IF f.pc # <<>>
        THEN [vanityPage(hh, r, At(hh.paths, f.pc[1]), f.subpath) EXCEPT !.mount = f.pc]
        ELSE IF current = <<"/">> THEN handler_serveIndex(hh, r)
        ELSE NotFound
        : g \in pathConfigRuleSet_find(hh.pathRules, current) }

\* handler.ServeHTTP of handler.go: the responses it can give to request r
\* (mount is the index of the static mount, "rule" for a path rule)
handler_ServeHTTP(hh, r) ==
  LET current == r.Path
      f       == pathConfigSet_find(hh.paths, current)
  IN  IF f.pc # <<>>
      THEN {[vanityPage(hh, r, At(hh.paths, f.pc[1]), f.subpath) EXCEPT !.mount = f.pc]}
      ELSE { IF g.pc = <<>> /\ current = <<"/">> THEN handler_serveIndex(hh, r)
             ELSE IF g.pc = <<>> THEN NotFound
             ELSE [vanityPage(hh, r, g.pc[1], g.subpath) EXCEPT !.mount = <<"rule">>]
             : g \in pathConfigRuleSet_find(hh.pathRules, current) }

\* the literal prefixes of the rule keys: paths without "-"
RulePrefixes == {k \in Keys : \A i \in DOMAIN k : k[i] # "-"}

\* what follows the literal prefix in a rule key: a placeholder, well formed
\* or not
RuleTails ==
  { <<"{", "u", "}">>, <<"{", "u", "}", "/">>, <<"{", "v", "}">>, <<"{", "}">>,
    <<"{", "u">>, <<"{", "u", "}", "a">>, <<"{", "u", "}", "{", "v", "}">>, <<>> }

RuleKeys == {p \o t : p \in RulePrefixes, t \in RuleTails}

\* the rule keys with one well-formed placeholder
GoodRuleKeys ==
  {p \o t : p \in RulePrefixes,
            t \in {<<"{", "u", "}">>, <<"{", "u", "}", "/">>, <<"{", "v", "}">>}}

RuleDisplay ==
  <<"{", "u", "}", " ", "_", "{", "u", "}", "/", "{", "v", "}">>

\* the entries of the rules
GoodRuleEntry ==
  [Repo |-> GitHubPrefix \o <<"org", "/", "{", "u", "}">>, Display |-> RuleDisplay,
   VCS |-> ""]

RuleEntries ==
  [Repo : { GitHubPrefix \o <<"org", "/", "{", "u", "}">>,
            GitHubPrefix \o <<"{", "u", "}", "/">>,
            GitHubPrefix \o <<"{", "v", "}">>,
            GitHubPrefix \o <<"{", "u", "}", "/", "{", "u", "}">>,
            GitHubRepo,
            GitHubPrefix \o <<"{", "}">>,
            GitHubPrefix \o <<"{", "u">>,
            OtherRepo \o <<"/", "{", "u", "}">> },
   Display : {<<>>, RuleDisplay},
   VCS : {"", "hg", "xyzzy"}]

\* the static paths of the rule configurations
RuleStaticPaths ==
  { <<>>, [k \in {<<"/", "a">>} |-> GitHubEntry], [k \in {<<"/">>} |-> GitHubEntry] }

\* configurations with one rule, of any shape
OneRuleConfigs ==
  [Host : {ConfigHost}, Paths : {<<>>},
   PathRules : UNION {[{k} -> RuleEntries] : k \in RuleKeys}]

\* the entry whose repo has the placeholder of rule key k
MatchingRuleEntry(k) ==
  IF \E i \in DOMAIN k : k[i] = "v"
  THEN [GoodRuleEntry EXCEPT !.Repo = GitHubPrefix \o <<"org", "/", "{", "v", "}">>]
  ELSE GoodRuleEntry

\* configurations with at most two rules of a good shape, each with the
\* placeholder of its key in its repo
TwoRuleConfigs ==
  [Host : {<<>>, ConfigHost}, Paths : RuleStaticPaths,
   PathRules : {[k \in S |-> MatchingRuleEntry(k)] : S \in SetsUpTo(GoodRuleKeys, 2)}]

RuleConfigs == OneRuleConfigs \cup TwoRuleConfigs

InitRules ==
  /\ config \in RuleConfigs
  /\ h = <<>>
  /\ err = ""
  /\ pc = "start"
  /\ req = NoRequest
  /\ resp = NoResponse

\* the handler is built from the configuration, once
LoadRules ==
  /\ pc = "start"
  /\ \E r \in handler_newHandler(config) :
       /\ h' = r.h
       /\ err' = r.err
       /\ pc' = IF r.err = "" THEN "serving" ELSE "failed"
  /\ UNCHANGED <<config, req, resp>>

\* one request is served
ServeHTTPRules ==
  /\ pc = "serving"
  /\ \E r \in Requests :
       /\ req' = r
       /\ resp' \in handler_ServeHTTP(h[1], r)
  /\ pc' = "responded"
  /\ UNCHANGED <<config, h, err>>

NextRules == LoadRules \/ ServeHTTPRules \/ Finish

SpecRules == InitRules /\ [][NextRules]_vars

----------------------------------------------------------------------------
(* Concurrent requests (src/handler.go): net/http runs ServeHTTP in one     *)
(* goroutine for each connection, all on the same handler.                 *)

Slots == 1..MaxInFlight

\* the configurations of the concurrent runs: a static path next to a rule,
\* and two rules
ConcConfigs ==
  { [Host |-> <<>>, Paths |-> [k \in {<<"/", "a">>} |-> GitHubEntry],
     PathRules |-> [k \in {<<"/", "a", "a", "{", "u", "}">>} |-> GoodRuleEntry]],
    [Host |-> ConfigHost, Paths |-> <<>>,
     PathRules |-> [k \in {<<"/", "a", "a", "{", "u", "}">>,
                           <<"/", "a", "/", "{", "v", "}">>} |->
                      MatchingRuleEntry(k)]] }

\* the requests of the concurrent runs
ConcRequests ==
  [Path : { <<"/">>, <<"/", "a">>, <<"/", "a", "/", "-">>, <<"/", "a", "a", "-">>,
            <<"/", "-">> },
   Host : ReqHosts]

\* the local variables of one call of ServeHTTP: step is its position, pc and
\* subpath are the results of the static find, rulepc is the pointer the rule
\* find returned, out is the response it wrote
IdleSlot ==
  [step |-> "idle", pc |-> <<>>, rulepc |-> <<>>, subpath |-> <<>>, out |-> NoResponse]

InitConc ==
  /\ config \in ConcConfigs
  /\ h = <<>>
  /\ err = ""
  /\ pc = "start"
  /\ req = [i \in Slots |-> NoRequest]
  /\ resp = [i \in Slots |-> IdleSlot]

\* a goroutine starts ServeHTTP for a request
Accept(i) ==
  /\ pc = "serving"
  /\ resp[i].step = "idle"
  /\ \E r \in ConcRequests : req' = [req EXCEPT ![i] = r]
  /\ resp' = [resp EXCEPT ![i].step = "accepted"]
  /\ UNCHANGED <<config, h, err, pc>>

\* pc, subpath := h.paths.find(current)
FindStatic(i) ==
  /\ resp[i].step = "accepted"
  /\ LET f == pathConfigSet_find(h[1].paths, req[i].Path)
     IN  resp' = [resp EXCEPT ![i].step = "static", ![i].pc = f.pc,
                              ![i].subpath = f.subpath]
  /\ UNCHANGED <<config, h, err, pc, req>>

\* FindRules writing the repo it has synthesized into the rule
FindRules_WritesRule(i) ==
  /\ resp[i].step = "static"
  /\ IF resp[i].pc # <<>>
     THEN resp' = [resp EXCEPT ![i].step = "rules"] /\ h' = h
     ELSE \E g \in pathConfigRuleSet_find(h[1].pathRules, req[i].Path) :
            /\ resp' = [resp EXCEPT ![i].step = "rules", ![i].rulepc = g.pc,
                                     ![i].subpath = g.subpath]
            /\ h' = IF g.pc = <<>> THEN h
                    ELSE <<[h[1] EXCEPT !.pathRules =
                              [L \in DOMAIN h[1].pathRules |->
                                 IF HasPrefix(req[i].Path, L)
                                 THEN [h[1].pathRules[L] EXCEPT !.repoSubst = g.pc[1].repo]
                                 ELSE h[1].pathRules[L]]]>>
  /\ UNCHANGED <<config, err, pc, req>>

\* if pc == nil { pc, subpath = h.pathRules.find(current) }
FindRules(i) ==
  /\ resp[i].step = "static"
  /\ IF resp[i].pc # <<>>
     THEN resp' = [resp EXCEPT ![i].step = "rules"]
     ELSE \E g \in pathConfigRuleSet_find(h[1].pathRules, req[i].Path) :
            resp' = [resp EXCEPT ![i].step = "rules", ![i].rulepc = g.pc,
                                 ![i].subpath = g.subpath]
  /\ UNCHANGED <<config, h, err, pc, req>>

\* the rest of ServeHTTP: the index, the 404 or the page of the mount
Respond(i) ==
  /\ resp[i].step = "rules"
  /\ LET l == resp[i]
         r == req[i]
         out == IF l.pc # <<>>
                THEN [vanityPage(h[1], r, At(h[1].paths, l.pc[1]), l.subpath)
                        EXCEPT !.mount = l.pc]
                ELSE IF l.rulepc = <<>> /\ r.Path = <<"/">>
                THEN handler_serveIndex(h[1], r)
                ELSE IF l.rulepc = <<>> THEN NotFound
                ELSE [vanityPage(h[1], r, l.rulepc[1], l.subpath)
                        EXCEPT !.mount = <<"rule">>]
     IN  resp' = [resp EXCEPT ![i].step = "done", ![i].out = out]
  /\ UNCHANGED <<config, h, err, pc, req>>

\* ServeHTTP returns and its goroutine takes the next request
Done(i) ==
  /\ resp[i].step = "done"
  /\ req' = [req EXCEPT ![i] = NoRequest]
  /\ resp' = [resp EXCEPT ![i] = IdleSlot]
  /\ UNCHANGED <<config, h, err, pc>>

NextConc ==
  \/ LoadRules
  \/ \E i \in Slots : Accept(i)
  \/ \E i \in Slots : FindStatic(i)
  \/ \E i \in Slots : FindRules(i)
  \/ \E i \in Slots : Respond(i)
  \/ \E i \in Slots : Done(i)

SpecConc == InitConc /\ [][NextConc]_vars

----------------------------------------------------------------------------
(* Static resolution (package handler): the properties of find.            *)

\* the static mounts of the loaded handler
Mounts == h[1].paths

\* the result of find for the request being answered
Found == find(Mounts, Current(req))

\* mount path m followed by the separator is a prefix of request path p
SepPrefix(m, p) == HasPrefix(p, m \o <<"/">>)

\* the find result f is mount M
IsMount(f, M) == f.pc # <<>> /\ At(Mounts, f.pc[1]) = M

\* no mount other than Mounts[i] is equal to p or a longer separator-delimited
\* prefix of p
NoMoreSpecific(i, p) ==
  \A j \in DOMAIN Mounts :
    j # i =>
      /\ Mounts[j].path # p
      /\ ~(SepPrefix(Mounts[j].path, p) /\ Len(Mounts[j].path) > Len(Mounts[i].path))

\* C1: a request equal to M.path resolves to M with empty subpath, and a
\* request M.path + "/" + X that no other mount equals or more specifically
\* prefixes resolves to M with subpath X.
C1_ExactAndSubpath ==
  pc = "responded" =>
    \A i \in DOMAIN Mounts :
      LET M == Mounts[i]
          p == Current(req)
      IN  /\ p = M.path => IsMount(Found, M) /\ Found.subpath = <<>>
          /\ (SepPrefix(M.path, p) /\ NoMoreSpecific(i, p)) =>
               /\ IsMount(Found, M)
               /\ Found.subpath = SliceFrom(p, Len(M.path) + 1)

\* the mounts whose path is a proper separator-delimited prefix of p
Candidates(p) == {i \in DOMAIN Mounts : SepPrefix(Mounts[i].path, p)}

\* C2: with no exact match, find returns the mount with the longest path
\* among those that are separator-delimited prefixes of the request.
C2_LongestPrefix ==
  pc = "responded" =>
    LET p == Current(req)
    IN  ((\A i \in DOMAIN Mounts : Mounts[i].path # p) /\ Candidates(p) # {}) =>
          /\ Found.pc # <<>>
          /\ Found.pc[1] + 1 \in Candidates(p)
          /\ \A j \in Candidates(p) :
               Len(Mounts[j].path) <= Len(At(Mounts, Found.pc[1]).path)

\* C3: a returned mount is equal to the request path or a separator-delimited
\* prefix of it; with no such mount the result is no match, empty subpath.
C3_Sound ==
  pc = "responded" =>
    LET p == Current(req)
    IN  /\ Found.pc # <<>> =>
             \/ At(Mounts, Found.pc[1]).path = p
             \/ SepPrefix(At(Mounts, Found.pc[1]).path, p)
        /\ (\A i \in DOMAIN Mounts : Mounts[i].path # p /\ ~SepPrefix(Mounts[i].path, p)) =>
             Found = [pc |-> <<>>, subpath |-> <<>>]

\* C4: the returned subpath is the request path after the mount path and its
\* separator.
C4_SubpathAfterSeparator ==
  pc = "responded" =>
    LET p == Current(req)
    IN  Found.pc # <<>> =>
          LET m == At(Mounts, Found.pc[1]).path
          IN  \/ p = m /\ Found.subpath = <<>>
              \/ p = m \o <<"/">> \o Found.subpath

\* C5: find(M.path + "/") returns the same mount and the same empty subpath
\* as find(M.path).
C5_TrailingSlash ==
  pc = "responded" =>
    \A i \in DOMAIN Mounts :
      Current(req) = Mounts[i].path \o <<"/">> =>
        LET f == find(Mounts, Mounts[i].path)
        IN  /\ Found.pc # <<>>
            /\ f.pc # <<>>
            /\ At(Mounts, Found.pc[1]) = At(Mounts, f.pc[1])
            /\ Found.subpath = f.subpath
            /\ Found.subpath = <<>>

----------------------------------------------------------------------------
(* Path rules (src/handler.go).                                            *)

\* C6: for a rule with literal prefix L and placeholder T, a request
\* L + v + "/" + s with a non-empty segment v that no static mount matches gets
\* the mount L + v, repo and display with every T replaced by v, the vcs of the
\* rule, and subpath s.
C6_WildcardResolution ==
  pc = "responded" =>
    \A L \in DOMAIN h[1].pathRules :
      LET p    == req.Path
          rule == h[1].pathRules[L]
          rest == TrimPrefix(p, L)
          i    == Index(rest, "/")
          v    == SubSeq(rest, 1, i)
          s    == SliceFrom(rest, i + 1)
      IN  (HasPrefix(p, L) /\ i > 0 /\ pathConfigSet_find(h[1].paths, p).pc = <<>>) =>
            /\ resp.page = "vanity"
            /\ resp.path = L \o v
            /\ resp.repo = Replace(rule.repoSubst, rule.placeholder, v)
            /\ resp.display = Replace(rule.display, rule.placeholder, v)
            /\ resp.vcs = rule.vcs
            /\ resp.subpath = s

----------------------------------------------------------------------------
(* Redirects and cache lifetime (redirect variant).                        *)

\* the result of find for the request being answered
FoundRedir == PathConfigs_find(h[1].paths, req.Path)

\* the mount the request resolved to
FoundMount == At(h[1].paths, FoundRedir.pc[1])

\* the subpath contains one of the markers of mount m as a substring
HasMarker(m, subpath) ==
  \E i \in DOMAIN m.RedirPaths :
    \E a \in 0..Len(subpath) :
      /\ a + Len(m.RedirPaths[i]) <= Len(subpath)
      /\ \A k \in 1..Len(m.RedirPaths[i]) : subpath[a + k] = m.RedirPaths[i][k]

\* C7: a mount with a repo and a redirect target redirects (302, no metadata
\* page, no Cache-Control) when the subpath contains one of its markers, and
\* renders the metadata page when it contains none.
C7_RedirectPrecedence ==
  (pc = "responded" /\ FoundRedir.pc # <<>>) =>
    ((FoundMount.Repo # <<>> /\ FoundMount.Redir # <<>>) =>
       IF HasMarker(FoundMount, FoundRedir.subpath)
       THEN resp.status = 302 /\ resp.page = "redirect" /\ resp.cacheControl = <<>>
       ELSE resp.status = 200 /\ resp.page = "vanity")

C7_Witness ==
  /\ pc = "responded"
  /\ FoundRedir.pc # <<>>
  /\ FoundMount.Repo # <<>>
  /\ FoundMount.Redir # <<>>
  /\ FoundRedir.subpath = <<"a", "-">>
  /\ FoundMount.RedirPaths = << <<"-">> >>
  /\ resp.status = 302

\* C8 as stated: a redirect-only mount answers every request that resolves to
\* it with a 302, never with 404.
C8_RedirectOnlyAlways302 ==
  (pc = "responded" /\ FoundRedir.pc # <<>>) =>
    ((FoundMount.Repo = <<>> /\ FoundMount.Redir # <<>>) =>
       resp.status = 302 /\ resp.page = "redirect")

\* C8, amended: a redirect-only mount answers with a 302 when the subpath
\* contains one of its markers and with 404 when it contains none; it never
\* renders a metadata page.
C8_RedirectOnly ==
  (pc = "responded" /\ FoundRedir.pc # <<>>) =>
    ((FoundMount.Repo = <<>> /\ FoundMount.Redir # <<>>) =>
       IF HasMarker(FoundMount, FoundRedir.subpath)
       THEN resp.status = 302 /\ resp.page = "redirect"
       ELSE resp.status = 404 /\ resp.page = "notfound")

C8_Witness ==
  /\ pc = "responded"
  /\ FoundRedir.pc # <<>>
  /\ FoundMount.Repo = <<>>
  /\ FoundMount.Redir # <<>>
  /\ FoundMount.RedirPaths # <<>>
  /\ ~HasMarker(FoundMount, FoundRedir.subpath)
  /\ resp.status = 404

\* C9: the Cache-Control of a metadata page is "public, max-age=N", N being
\* the cache_max_age of the mount if present (0 included), else the global
\* cache_max_age if present (0 included), else 86400.
C9_CacheLifetime ==
  (pc = "responded" /\ resp.page = "vanity") =>
    LET N == IF FoundMount.CacheAge # <<>> THEN FoundMount.CacheAge[1]
             ELSE IF config.CacheAge # <<>> THEN config.CacheAge[1]
             ELSE 86400
    IN  resp.cacheControl = <<"public, max-age=", N>>

C9_Witness ==
  /\ pc = "responded"
  /\ resp.page = "vanity"
  /\ FoundMount.CacheAge = <<0>>
  /\ config.CacheAge = <<60>>
  /\ resp.cacheControl = <<"public, max-age=", 0>>

----------------------------------------------------------------------------
(* Load-time validation (package handler).                                 *)

\* C10: loading a configuration with a negative cache_max_age fails with an
\* error and yields no handler, whatever its paths.
C10_NegativeCacheAge ==
  (pc # "start" /\ config.CacheAge # <<>> /\ config.CacheAge[1] < 0) =>
    /\ pc = "failed"
    /\ h = <<>>
    /\ err # ""

C10_Witness ==
  /\ pc = "failed"
  /\ config.CacheAge = <<-1>>
  /\ \A k \in DOMAIN config.Paths : NewPathConfig(k, config.Paths[k]).err = ""

----------------------------------------------------------------------------
(* Load-time validation and the metadata page.                             *)

\* the vcs of entry e cannot be accepted: it is supplied and unknown, or it
\* is empty, the repo is not a GitHub URL and the entry is not redirect-only
BadVCS(e) ==
  \/ e.VCS # "" /\ e.VCS \notin {"git", "hg", "svn", "bzr"}
  \/ /\ e.VCS = ""
     /\ ~HasPrefix(e.Repo, <<"https:", "/", "/", "github.com", "/">>)
     /\ ~(e.Repo = <<>> /\ e.Redir # <<>>)

ResolvedHost == IF config.Host # <<>> THEN config.Host ELSE req.Host

\* C12: for a request that resolves to mount M with resolved host H the
\* go-import value is H + M.path, a space, M.vcs, a space, M.repo and the
\* go-source value is H + M.path, a space, M.display; the request for M.path
\* itself yields the same two values.
C12_MetaValues ==
  (pc = "responded" /\ resp.page = "vanity") =>
    LET M == At(Mounts, Found.pc[1])
        H == ResolvedHost
        atPath == ServeHTTPResponse(h[1], [Path |-> M.path, Host |-> req.Host])
    IN  /\ HTMLUnescape(resp.goImport) = H \o M.path \o <<" ", M.vcs, " ">> \o M.repo
        /\ HTMLUnescape(resp.goSource) = H \o M.path \o <<" ">> \o M.display
        /\ atPath.goImport = resp.goImport
        /\ atPath.goSource = resp.goSource

\* the display the claims expect for entry e
ExpectedDisplay(e) ==
  LET R == e.Repo
      dir == <<"{", "/", "dir", "}">>
  IN  IF e.Display # <<>> THEN e.Display
      ELSE IF HasPrefix(R, <<"https:", "/", "/", "github.com", "/">>)
      THEN R \o <<" ">> \o R \o <<"/", "tree", "/", "master">> \o dir \o <<" ">>
             \o R \o <<"/", "blob", "/", "master">> \o dir
             \o <<"/", "{", "file", "}", "#L", "{", "line", "}">>
      ELSE IF HasPrefix(R, <<"https:", "/", "/", "bitbucket.org">>)
      THEN R \o <<" ">> \o R \o <<"/", "src", "/", "default">> \o dir \o <<" ">>
             \o R \o <<"/", "src", "/", "default">> \o dir
             \o <<"/", "{", "file", "}", "#", "{", "file", "}", "-", "{", "line", "}">>
      ELSE <<>>

\* the vcs of entry e of package handler cannot be accepted
BadVCSNoRedir(e) ==
  \/ e.VCS # "" /\ e.VCS \notin {"git", "hg", "svn", "bzr"}
  \/ e.VCS = "" /\ ~HasPrefix(e.Repo, <<"https:", "/", "/", "github.com", "/">>)

\* C13: after a load every entry is a mount with its repo and with the
\* display it supplies, else the GitHub or the Bitbucket form for such a repo,
\* whatever the vcs, else the empty display; a load whose cache age and vcs
\* values are accepted does not fail.
C13_DisplayInference ==
  /\ pc \in {"serving", "responded"} =>
       \E o \in Orders(DOMAIN config.Paths) :
         /\ Len(o) = Len(Mounts)
         /\ \A i \in DOMAIN o :
              LET e == config.Paths[o[i]]
              IN  /\ Mounts[i].repo = e.Repo
                  /\ Mounts[i].display = ExpectedDisplay(e)
                  /\ e.VCS # "" => Mounts[i].vcs = e.VCS
  /\ (/\ pc # "start"
      /\ config.CacheAge = <<>> \/ config.CacheAge[1] >= 0
      /\ \A k \in DOMAIN config.Paths : ~BadVCSNoRedir(config.Paths[k]))
       => pc # "failed"

C13_Witness ==
  /\ pc = "serving"
  /\ \E k \in DOMAIN config.Paths :
       /\ config.Paths[k].Display = <<>>
       /\ config.Paths[k].Repo = PlusRepo
  /\ \E i \in DOMAIN Mounts :
       /\ Mounts[i].vcs = "hg"
       /\ HasPrefix(Mounts[i].repo, <<"https:", "/", "/", "bitbucket.org">>)
       /\ Mounts[i].display = ExpectedDisplay([Repo |-> Mounts[i].repo, Display |-> <<>>])

----------------------------------------------------------------------------
(* The dispatcher (src/handler.go).                                        *)

\* neither the static index nor the rule matcher yields a mount for path p
Unmatched(p) ==
  /\ pathConfigSet_find(h[1].paths, p).pc = <<>>
  /\ \A prefix \in DOMAIN h[1].pathRules : ~HasPrefix(p, prefix)

\* C15: an unmatched request gets the index page with status 200 when its
\* path is exactly "/" and a 404 for every other path; a request that
\* resolves to a mount never gets the index page.
C15_Unmatched ==
  pc = "responded" =>
    IF Unmatched(req.Path)
    THEN IF req.Path = <<"/">>
         THEN resp.status = 200 /\ resp.page = "index"
         ELSE resp.status = 404 /\ resp.page = "notfound"
    ELSE resp.page = "vanity"

C15_Witness ==
  /\ pc = "responded"
  /\ DOMAIN h[1].pathRules # {}
  /\ h[1].paths # <<>>
  /\ req.Path = <<"/">>
  /\ resp.status = 200
  /\ resp.page = "index"

\* the entries of a list, as a set
Range(q) == {q[i] : i \in DOMAIN q}

\* C16: the index page lists host + M.path for every static mount M of the
\* loaded configuration, redirect-only mounts included, and nothing else.
C16_IndexListing ==
  (pc = "responded" /\ resp.page = "index") =>
    /\ Range(resp.handlers) = {ResolvedHost \o h[1].paths[i].path : i \in DOMAIN h[1].paths}
    /\ Len(resp.handlers) = Len(h[1].paths)

\* C18: a request is handled only by a handler that newHandler returned
\* without an error; a load error leaves no handler (nil) next to the error,
\* and the process then stops without having served or serving any request.
C18_ValidateBeforeServe ==
  /\ [](/\ pc \in {"serving", "responded"} => h # <<>> /\ err = ""
        /\ (req # NoRequest \/ resp # NoResponse) =>
             pc = "responded" /\ h # <<>> /\ err = ""
        /\ pc = "failed" =>
             h = <<>> /\ err # "" /\ req = NoRequest /\ resp = NoResponse)
  /\ [][/\ pc # "failed"
        /\ req' # req => pc = "serving" \/ pc = "responded"
        /\ pc = "start" => req' = NoRequest /\ resp' = NoResponse]_vars

C18_Witness ==
  /\ pc = "failed"
  /\ err = "already covered"
  /\ h = <<>>
  /\ config.Paths # <<>>
  /\ req = NoRequest

----------------------------------------------------------------------------
(* Redirect target and entries without a repo (redirect variant).          *)

\* C17: a redirected request has status 302 and the Location is the redirect
\* target of its mount followed by the request path without the mount path
\* at its front, for a mount found on the fast path or on the slow path.
C17_RedirectTarget ==
  (pc = "responded" /\ (resp.page = "redirect" \/ resp.status = 302)) =>
    /\ resp.status = 302
    /\ resp.page = "redirect"
    /\ FoundRedir.pc # <<>>
    /\ FoundMount.Redir # <<>>
    /\ req.Path = FoundMount.path \o SliceFrom(req.Path, Len(FoundMount.path))
    /\ resp.location = FoundMount.Redir \o SliceFrom(req.Path, Len(FoundMount.path))

\* a redirect of a request whose mount is not the predecessor in the order
\* of the paths: it was found on the slow path
C17_Witness ==
  /\ pc = "responded"
  /\ resp.page = "redirect"
  /\ Len(h[1].paths) = 2
  /\ FoundRedir.pc = <<0>>
  /\ StrLess(h[1].paths[2].path, req.Path)
  /\ req.Path = <<"/", "a", "/", "-">>
  /\ resp.location = FoundMount.Redir \o <<"/", "-">>

\* C19: after a successful load every static mount has a repo or a redirect
\* target, and a configuration with an entry that has neither is rejected at
\* load, whatever its vcs.
C19_NeverNeither ==
  /\ pc \in {"serving", "responded"} =>
       \A i \in DOMAIN h[1].paths :
         h[1].paths[i].Repo # <<>> \/ h[1].paths[i].Redir # <<>>
  /\ (/\ pc # "start"
      /\ \E k \in DOMAIN config.Paths :
           config.Paths[k].Repo = <<>> /\ config.Paths[k].Redir = <<>>)
       => pc = "failed" /\ h = <<>>

\* the path the claims expect for key k: k without one trailing "/"
Canonical(k) ==
  IF k # <<>> /\ k[Len(k)] = "/" THEN SubSeq(k, 1, Len(k) - 1) ELSE k

\* C21: a configuration with two keys of the same canonical path is rejected
\* at load, and a loaded handler never holds two mounts with equal paths.
C21_UniquePaths ==
  /\ pc \in {"serving", "responded"} =>
       \A i, j \in DOMAIN h[1].paths :
         i # j => h[1].paths[i].path # h[1].paths[j].path
  /\ (/\ pc # "start"
      /\ \E k1, k2 \in DOMAIN config.Paths :
           k1 # k2 /\ Canonical(k1) = Canonical(k2))
       => pc = "failed" /\ h = <<>>

----------------------------------------------------------------------------
(* Canonical paths (package handler).                                      *)

\* C20: after a successful load no static mount has a path that ends with
\* "/", whatever the configured keys.
C20_NoTrailingSeparator ==
  pc \in {"serving", "responded"} =>
    \A i \in DOMAIN Mounts :
      Mounts[i].path = <<>> \/ Mounts[i].path[Len(Mounts[i].path)] # "/"

----------------------------------------------------------------------------
(* Path rules: validation (src/handler.go).                                *)

\* the positions of character c in s
Positions(s, c) == {i \in DOMAIN s : s[i] = c}

\* the least element of a non-empty set of numbers
Least(S) == CHOOSE i \in S : \A j \in S : i <= j

\* the position of the first "{" of s, 0 if there is none
OpenAt(s) == IF Positions(s, "{") = {} THEN 0 ELSE Least(Positions(s, "{"))

\* the position of the first "}" after the first "{" of s, 0 if there is none
CloseAt(s) ==
  LET after == {j \in Positions(s, "}") : j > OpenAt(s)}
  IN  IF OpenAt(s) = 0 \/ after = {} THEN 0 ELSE Least(after)

\* s has a placeholder that is terminated and not empty, and no "{" or "}"
\* after it
OnePlaceholder(s) ==
  /\ OpenAt(s) > 0
  /\ CloseAt(s) > OpenAt(s) + 1
  /\ \A k \in DOMAIN s : k > CloseAt(s) => s[k] \notin {"{", "}"}

\* the rule key k is, without one trailing "/", a literal prefix and a
\* placeholder with nothing after it
KeyStructure(k) ==
  OnePlaceholder(Canonical(k)) /\ CloseAt(Canonical(k)) = Len(Canonical(k))

\* C22: the load fails for every rule whose key or repo template, without one
\* trailing "/", has no "{", an unterminated or an empty placeholder or a
\* brace after the placeholder, and for every key with text after the
\* placeholder; an accepted key is its literal prefix and "{name}" with a
\* name that is not empty.
C22_RuleStructure ==
  /\ (/\ pc # "start"
      /\ \E k \in DOMAIN config.PathRules :
           \/ ~KeyStructure(k)
           \/ ~OnePlaceholder(Canonical(config.PathRules[k].Repo)))
       => pc = "failed" /\ h = <<>> /\ err # ""
  /\ pc \in {"serving", "responded"} =>
       \A k \in DOMAIN config.PathRules :
         \E L \in DOMAIN h[1].pathRules :
           LET T == h[1].pathRules[L].placeholder
           IN  /\ Canonical(k) = L \o T
               /\ Len(T) >= 3
               /\ T[1] = "{" /\ T[Len(T)] = "}"
               /\ Positions(L, "{") = {}

C22_Witness ==
  /\ pc = "failed"
  /\ err = "repo"
  /\ \A k \in DOMAIN config.PathRules :
       /\ KeyStructure(k)
       /\ Cardinality(Positions(config.PathRules[k].Repo, "{")) = 2

\* the placeholder token of s: from its first "{" to the first "}" after it
Token(s) == SubSeq(s, OpenAt(s), CloseAt(s))

\* t occurs in s
Occurs(s, t) ==
  \E a \in 0..Len(s) :
    a + Len(t) <= Len(s) /\ \A k \in 1..Len(t) : s[a + k] = t[k]

\* the dynamic value of request path p under literal prefix L: what follows L
\* up to the next "/"
DynamicValue(p, L) ==
  LET rest == SubSeq(p, Len(L) + 1, Len(p))
      cut  == Positions(rest, "/")
  IN  IF cut = {} THEN rest ELSE SubSeq(rest, 1, Least(cut) - 1)

\* the request being answered got the page of a rule match
RuleMatched ==
  /\ pc = "responded"
  /\ resp.page = "vanity"
  /\ pathConfigSet_find(h[1].paths, req.Path).pc = <<>>

\* C23: the load fails when the placeholder token of a rule key differs from
\* the one of its repo template; the token of an accepted rule occurs in its
\* repo template, and the repo of a rule match differs from the template
\* and holds the token only if the dynamic value does.
C23_PlaceholderAgreement ==
  /\ (/\ pc # "start"
      /\ \E k \in DOMAIN config.PathRules :
           LET repo == Canonical(config.PathRules[k].Repo)
           IN  /\ KeyStructure(k)
               /\ OnePlaceholder(repo)
               /\ Token(Canonical(k)) # Token(repo))
       => pc = "failed" /\ h = <<>> /\ err # ""
  /\ pc \in {"serving", "responded"} =>
       \A L \in DOMAIN h[1].pathRules :
         Occurs(h[1].pathRules[L].repoSubst, h[1].pathRules[L].placeholder)
  /\ RuleMatched =>
       \A L \in DOMAIN h[1].pathRules :
         HasPrefix(req.Path, L) =>
           LET rule == h[1].pathRules[L]
               v    == DynamicValue(req.Path, L)
           IN  /\ v # rule.placeholder => resp.repo # rule.repoSubst
               /\ Occurs(resp.repo, rule.placeholder) => Occurs(v, rule.placeholder)

C23_Witness ==
  /\ RuleMatched
  /\ \E L \in DOMAIN h[1].pathRules :
       /\ HasPrefix(req.Path, L)
       /\ DynamicValue(req.Path, L) = <<"-", "a">>
       /\ h[1].pathRules[L].repoSubst = GitHubPrefix \o <<"org", "/", "{", "u", "}">>
       /\ resp.repo = GitHubPrefix \o <<"org", "/", "-", "a">>

\* the literal prefix of rule key k: what precedes its first "{"
LiteralPrefix(k) == SubSeq(k, 1, OpenAt(k) - 1)

\* C24: a configuration in which the literal prefix of one rule key is a
\* prefix of, or equal to, the literal prefix of another key is rejected; a
\* loaded handler has one rule for each key, and no literal prefix of its
\* rules is a prefix of another one.
C24_NoOverlap ==
  /\ (/\ pc # "start"
      /\ \E k1, k2 \in DOMAIN config.PathRules :
           /\ k1 # k2
           /\ OpenAt(k1) > 0 /\ OpenAt(k2) > 0
           /\ HasPrefix(LiteralPrefix(k2), LiteralPrefix(k1)))
       => pc = "failed" /\ h = <<>> /\ err # ""
  /\ pc \in {"serving", "responded"} =>
       /\ Cardinality(DOMAIN h[1].pathRules) = Cardinality(DOMAIN config.PathRules)
       /\ \A L1, L2 \in DOMAIN h[1].pathRules : L1 # L2 => ~HasPrefix(L2, L1)

C24_Witness ==
  /\ pc = "failed"
  /\ err = "duplicate prefix"
  /\ \E k1, k2 \in DOMAIN config.PathRules :
       /\ Token(k1) # Token(k2)
       /\ LiteralPrefix(k1) = LiteralPrefix(k2)

\* the literal prefixes of the loaded rules that are prefixes of path p
MatchingPrefixes(p) == {L \in DOMAIN h[1].pathRules : HasPrefix(p, L)}

\* C25: at most one literal prefix of the loaded rules is a prefix of the
\* request path, and the rule matcher and the dispatcher have one result,
\* whatever the order in which the rules are visited.
C25_MatcherDeterminism ==
  pc = "responded" =>
    /\ Cardinality(MatchingPrefixes(req.Path)) <= 1
    /\ Cardinality(pathConfigRuleSet_find(h[1].pathRules, req.Path)) = 1
    /\ handler_ServeHTTP(h[1], req) = {resp}

C25_Witness ==
  /\ RuleMatched
  /\ Cardinality(DOMAIN h[1].pathRules) = 2
  /\ Cardinality(MatchingPrefixes(req.Path)) = 1
  /\ \E L \in DOMAIN h[1].pathRules : ~HasPrefix(req.Path, L)

\* C26: when the static index returns a mount M for the request path, the
\* response is the page of M and of the subpath of the static index, also
\* when the literal prefix of a rule is a prefix of the path.
C26_StaticFirst ==
  pc = "responded" =>
    LET f == pathConfigSet_find(h[1].paths, req.Path)
    IN  f.pc # <<>> =>
          LET M == At(h[1].paths, f.pc[1])
          IN  /\ resp.page = "vanity"
              /\ resp.path = M.path
              /\ resp.repo = M.repo
              /\ resp.display = M.display
              /\ resp.vcs = M.vcs
              /\ resp.subpath = f.subpath
              /\ resp.import = handler_Host(h[1], req) \o M.path

C26_Witness ==
  /\ pc = "responded"
  /\ pathConfigSet_find(h[1].paths, req.Path).pc # <<>>
  /\ MatchingPrefixes(req.Path) # {}
  /\ req.Path = <<"/", "a", "/", "a">>
  /\ resp.repo = GitHubRepo
  /\ resp.subpath = <<"a">>

----------------------------------------------------------------------------
(* Concurrency and determinism.                                            *)

\* C27: with several requests in flight and their steps interleaved in any
\* order, no step after the load changes the handler (its host, its static
\* mounts, its rules), and every request gets an outcome that handling it
\* alone can give.
C27_Immutable ==
  /\ [][pc # "start" => h' = h]_vars
  /\ [](pc = "serving" =>
          /\ h[1] \in {r.h[1] : r \in {x \in handler_newHandler(config) : x.err = ""}}
          /\ \A i \in Slots :
               resp[i].step = "done" => resp[i].out \in handler_ServeHTTP(h[1], req[i]))

C27_Witness ==
  /\ pc = "serving"
  /\ \E i, j \in Slots :
       /\ i # j
       /\ resp[i].step = "done"
       /\ resp[i].rulepc # <<>>
       /\ resp[j].step = "rules"
       /\ resp[j].rulepc # <<>>
       /\ req[i] # req[j]

\* C28: the response class and the resolved mount of a request are the same
\* for every handler that a load of the same configuration can build,
\* whatever the order of the map iteration and of the sort.
C28_Deterministic ==
  pc = "responded" =>
    \A r2 \in newHandler(config) :
      LET o == Handler_ServeHTTP(r2.h[1], req)
      IN  /\ o.status = resp.status
          /\ o.page = resp.page
          /\ o.path = resp.path
          /\ o.repo = resp.repo
          /\ o.vcs = resp.vcs
          /\ o.display = resp.display
          /\ o.cacheControl = resp.cacheControl
          /\ o.subpath = resp.subpath

\* C29: on the sorted mounts of a loaded handler, the static find of
\* src/handler.go (the exact match, else the entry before the insertion point)
\* returns the same mount and the same subpath as the find with the fast and
\* the slow path.
C29_FindsAgree ==
  pc = "responded" =>
    LET g == pathConfigSet_find(Mounts, Current(req))
    IN  /\ g.pc = Found.pc
        /\ g.subpath = Found.subpath

----------------------------------------------------------------------------
(* The dynamic value of a wildcard match.                                  *)

\* C30: a request whose dynamic value is empty (it is equal to the literal
\* prefix of the rule, or has "/" right after it) gets no wildcard match: with
\* no static mount for it, "/" gets the index page and any other path the
\* 404.
C30_NoEmptyValue ==
  (/\ pc = "responded"
   /\ pathConfigSet_find(h[1].paths, req.Path).pc = <<>>
   /\ \A L \in MatchingPrefixes(req.Path) : DynamicValue(req.Path, L) = <<>>)
  => resp = IF req.Path = <<"/">> THEN handler_serveIndex(h[1], req) ELSE NotFound

====
